---- MODULE Spec2Model ----
(***************************************************************************)
(* Model of utilities/extract_apex_domains.py: the apex resolver           *)
(* extract_apex_domain, the per-file transform process_file and the batch  *)
(* loop of main.                                                           *)
(*                                                                         *)
(* A Python str is a sequence of one-character strings, so that strip,     *)
(* lower, split and join are computed character by character.  None is the *)
(* one-element sequence <<"None">>, whose element is not a character, so   *)
(* it differs from every str, the empty str included.                      *)
(***************************************************************************)
EXTENDS Integers, Sequences, FiniteSets, TLC

VARIABLES
    domain,          \* resolver run: the argument of extract_apex_domain
    apex,            \* resolver run: extract_apex_domain(domain)
    again,           \* resolver run: extract_apex_domain(apex)
    dotted,          \* resolver run: extract_apex_domain(domain + ".")
    rpc,             \* resolver run: position of the driver
    txt_files,       \* main: number of discovered input files, in sorted order 1..n
    input_file,      \* main: index of the file the loop is at
    total_processed, \* main: the counter of line 110/117 (None before line 110)
    printed,         \* main: the per-file counts printed at line 119
    summary,         \* main: the count printed at line 121 (None if not printed)
    mpc,             \* main: position in main
    ppc,             \* process_file: position in process_file
    nread,           \* process_file: lines of the input read so far
    apex_domains,    \* process_file: the set of line 60
    towrite,         \* process_file: what is left of sorted(apex_domains) to write
    buffer,          \* process_file: what f.write has handed to the output file object
    count,           \* process_file: its return value (None while running)
    failed,          \* process_file: where the exception of line 85 came from
    disk,            \* what is on disk at the output path of the file main is at
    before           \* what was there when process_file was entered

rvars == <<domain, apex, again, dotted, rpc>>
mvars == <<txt_files, input_file, total_processed, printed, summary, mpc>>
pvars == <<ppc, nread, apex_domains, towrite, buffer, count, failed, disk, before>>
vars == <<rvars, mvars, pvars>>

-----------------------------------------------------------------------------
(* Bounds of the model. *)

MaxAtoms == 5
MaxLines == 3
MaxFiles == 2

-----------------------------------------------------------------------------
(* Python str primitives. *)

None == <<"None">>

\* An output path with no file, and the output an earlier run left there.
NoFile == <<"NoFile">>
Stale == <<"o","l","d",".","x","\n">>

\* The printable ASCII characters in code-point order, from 32 (space) to 126.
\* Code 96, the grave accent, cannot be written in a TLA+ string: the name
\* "GRAVE" holds its place and is no character of the model.
Printable ==
    <<
      " ", "!", "\"", "#", "$", "%", "&", "'", "(", ")", "*", "+",
      ",", "-", ".", "/", "0", "1", "2", "3", "4", "5", "6", "7",
      "8", "9", ":", ";", "<", "=", ">", "?", "@", "A", "B", "C",
      "D", "E", "F", "G", "H", "I", "J", "K", "L", "M", "N", "O",
      "P", "Q", "R", "S", "T", "U", "V", "W", "X", "Y", "Z", "[",
      "\\", "]", "^", "_", "GRAVE", "a", "b", "c", "d", "e", "f", "g",
      "h", "i", "j", "k", "l", "m", "n", "o", "p", "q", "r", "s",
      "t", "u", "v", "w", "x", "y", "z", "{", "|", "}", "~" >>

\* The control characters and Latin-1 spaces that Python counts as whitespace
\* and that have no escape in a TLA+ string: they are written raw.
VT == ""
FS == ""
GS == ""
RS == ""
US == ""
NEL == ""
NBSP == " "

\* The code point of every character of the model.
code_point ==
    [c \in {Printable[i] : i \in 1..Len(Printable)}
            \cup {"\t", "\n", "\f", "\r", VT, FS, GS, RS, US, NEL, NBSP} |->
        CASE c = "\t" -> 9
          [] c = "\n" -> 10
          [] c = VT -> 11
          [] c = "\f" -> 12
          [] c = "\r" -> 13
          [] c = FS -> 28
          [] c = GS -> 29
          [] c = RS -> 30
          [] c = US -> 31
          [] c = NEL -> 133
          [] c = NBSP -> 160
          [] OTHER -> 31 + (CHOOSE i \in 1..Len(Printable) : Printable[i] = c)]

\* ord(c)
ord(c) == code_point[c]

\* chr(n) for 32 <= n <= 126.
chr(n) == Printable[n - 31]

\* The characters str.strip() and str.split() treat as whitespace
\* (str.isspace), up to code point 255.  The Unicode spaces above that
\* (U+1680, U+2000-200A, U+2028, U+2029, U+202F, U+205F, U+3000) cannot be
\* written in a TLA+ string and are no characters of the model.
Whitespace ==
    {" ", "\t", "\n", "\f", "\r", VT, FS, GS, RS, US, NEL, NBSP}

Min(S) == CHOOSE x \in S : \A y \in S : x <= y
Max(S) == CHOOSE x \in S : \A y \in S : x >= y

\* str.lower(): A-Z become a-z, every other character is kept.
lower(s) ==
    [i \in 1..Len(s) |->
        IF ord(s[i]) >= ord("A") /\ ord(s[i]) <= ord("Z")
        THEN chr(ord(s[i]) + (ord("a") - ord("A")))
        ELSE s[i]]

\* str.strip(): leading and trailing whitespace removed.
strip(s) ==
    LET keep == {i \in 1..Len(s) : s[i] \notin Whitespace}
    IN  IF keep = {} THEN <<>> ELSE SubSeq(s, Min(keep), Max(keep))

\* str.endswith(c) and str.startswith(c) for a one-character c.
endswith(s, c) == Len(s) > 0 /\ s[Len(s)] = c
startswith(s, c) == Len(s) > 0 /\ s[1] = c

\* str.split(sep) for a one-character sep: the pieces between the separators,
\* empty pieces included.
RECURSIVE split(_, _)
split(s, sep) ==
    LET at == {i \in 1..Len(s) : s[i] = sep}
    IN  IF at = {} THEN <<s>>
        ELSE <<SubSeq(s, 1, Min(at) - 1)>>
             \o split(SubSeq(s, Min(at) + 1, Len(s)), sep)

\* str.split() without argument: the maximal runs of non-whitespace.
RECURSIVE split_ws(_)
split_ws(s) ==
    LET t == strip(s)
        ws == {i \in 1..Len(t) : t[i] \in Whitespace}
    IN  IF t = <<>> THEN <<>>
        ELSE IF ws = {} THEN <<t>>
        ELSE <<SubSeq(t, 1, Min(ws) - 1)>>
             \o split_ws(SubSeq(t, Min(ws), Len(t)))

\* sep.join(parts)
RECURSIVE join(_, _)
join(sep, parts) ==
    IF Len(parts) = 0 THEN <<>>
    ELSE IF Len(parts) = 1 THEN parts[1]
    ELSE parts[1] \o <<sep>> \o join(sep, Tail(parts))

\* parts[-n:], which keeps the whole list when it has fewer than n items.
last(parts, n) ==
    SubSeq(parts, IF Len(parts) > n THEN Len(parts) - n + 1 ELSE 1, Len(parts))

\* a < b for two str: Python compares code point by code point, a proper prefix
\* being smaller.
RECURSIVE str_lt(_, _)
str_lt(a, b) ==
    IF b = <<>> THEN FALSE
    ELSE IF a = <<>> THEN TRUE
    ELSE IF a[1] = b[1] THEN str_lt(Tail(a), Tail(b))
    ELSE ord(a[1]) < ord(b[1])

\* Faulty variant of sorted: the order is reversed.
RECURSIVE sorted_reversed(_)
sorted_reversed(S) ==
    IF S = {} THEN <<>>
    ELSE LET m == CHOOSE x \in S : \A y \in S \ {x} : str_lt(y, x)
         IN  <<m>> \o sorted_reversed(S \ {m})

\* sorted(S) of a set of str.
RECURSIVE sorted(_)
sorted(S) ==
    IF S = {} THEN <<>>
    ELSE LET m == CHOOSE x \in S : \A y \in S \ {x} : str_lt(x, y)
         IN  <<m>> \o sorted(S \ {m})

-----------------------------------------------------------------------------
(* extract_apex_domain *)

two_level_tlds == {
     <<"c","o",".","u","k">>,
     <<"c","o",".","j","p">>,
     <<"c","o",".","k","r">>,
     <<"c","o",".","n","z">>,
     <<"c","o",".","z","a">>,
     <<"c","o",".","i","l">>,
     <<"c","o",".","i","n">>,
     <<"c","o","m",".","a","u">>,
     <<"c","o","m",".","b","r">>,
     <<"c","o","m",".","c","n">>,
     <<"c","o","m",".","m","x">>,
     <<"c","o","m",".","a","r">>,
     <<"c","o","m",".","t","r">>,
     <<"o","r","g",".","u","k">>,
     <<"o","r","g",".","a","u">>,
     <<"a","c",".","u","k">>,
     <<"g","o","v",".","u","k">>,
     <<"n","e","t",".","a","u">> }

\* Faulty variant of normalize: lower() forgotten.
normalize_keepcase(d) ==
    LET s == strip(d)
    IN  IF endswith(s, ".") THEN SubSeq(s, 1, Len(s) - 1) ELSE s

\* Faulty variant of normalize: the trailing "." is kept.
normalize_keepdot(d) == lower(strip(d))

\* Lines 22-26: strip, lower, then one trailing "." removed.
normalize(d) ==
    LET s == lower(strip(d))
    IN  IF endswith(s, ".") THEN SubSeq(s, 1, Len(s) - 1) ELSE s

\* Faulty variant of apex_of_parts: the two-part suffixes are not looked up.
apex_of_parts_two(dom) ==
    LET parts == split(dom, ".")
    IN  IF Len(parts) <= 1 THEN dom ELSE join(".", last(parts, 2))

\* Faulty variant of apex_of_parts: three labels are kept whatever the suffix.
apex_of_parts_three(dom) ==
    LET parts == split(dom, ".")
    IN  IF Len(parts) <= 1 THEN dom
        ELSE IF Len(parts) >= 3 THEN join(".", last(parts, 3))
        ELSE join(".", last(parts, 2))

\* Lines 45-52: the apex of a str that is already normalized and not empty.
apex_of_parts(dom) ==
    LET parts == split(dom, ".")
    IN  IF Len(parts) <= 1 THEN dom
        ELSE IF Len(parts) >= 3
                /\ join(".", last(parts, 2)) \in two_level_tlds
        THEN (IF Len(parts) >= 3 THEN join(".", last(parts, 3)) ELSE dom)
        ELSE join(".", last(parts, 2))

extract_apex_domain(d) ==
    LET dom == normalize(d)
    IN  IF dom = <<>> THEN None ELSE apex_of_parts(dom)

-----------------------------------------------------------------------------
(* The resolver run: extract_apex_domain applied to one argument, then to  *)
(* its own result, then to the argument with "." appended.                 *)

\* The pieces the arguments are built from.
Atoms ==
    { <<"x">>, <<"X">>, <<".">>, <<" ">>, <<VT>>, <<"c","o">>, <<"u","k">>,
      <<"c","o",".","u","k">> }

RECURSIVE Concat(_)
Concat(ss) == IF ss = <<>> THEN <<>> ELSE Head(ss) \o Concat(Tail(ss))

\* Every str that is the concatenation of at most MaxAtoms atoms.
Inputs == { Concat(t) : t \in UNION { [1..n -> Atoms] : n \in 0..MaxAtoms } }

MainIdle ==
    /\ txt_files = 0
    /\ input_file = 0
    /\ total_processed = 0
    /\ printed = <<>>
    /\ summary = <<>>
    /\ mpc = "idle"

ProcessIdle ==
    /\ ppc = "idle"
    /\ nread = 0
    /\ apex_domains = {}
    /\ towrite = <<>>
    /\ buffer = <<>>
    /\ count = 0
    /\ failed = "no"

InitResolver ==
    /\ domain \in Inputs
    /\ apex = None
    /\ again = None
    /\ dotted = None
    /\ rpc = "call"
    /\ MainIdle
    /\ ProcessIdle
    /\ disk = NoFile
    /\ before = NoFile

Resolve ==
    /\ rpc = "call"
    /\ apex' = extract_apex_domain(domain)
    /\ rpc' = "resolved"
    /\ UNCHANGED <<domain, again, dotted, mvars, pvars>>

ResolveAgain ==
    /\ rpc = "resolved"
    /\ apex # None
    /\ again' = extract_apex_domain(apex)
    /\ rpc' = "again"
    /\ UNCHANGED <<domain, apex, dotted, mvars, pvars>>

ResolveDotted ==
    /\ \/ rpc = "again"
       \/ rpc = "resolved" /\ apex = None
    /\ dotted' = extract_apex_domain(domain \o <<".">>)
    /\ rpc' = "done"
    /\ UNCHANGED <<domain, apex, again, mvars, pvars>>

NextResolver == Resolve \/ ResolveAgain \/ ResolveDotted

SpecResolver == InitResolver /\ [][NextResolver]_vars

-----------------------------------------------------------------------------
(* process_file and main.  The input files are 1..txt_files in sorted      *)
(* order.  The output path of a file carries the name of that file (line   *)
(* 114), so each call of process_file has a path of its own: disk is what  *)
(* that path holds, drawn when the call starts (nothing, or the output of  *)
(* an earlier run).  A file's lines are drawn as they are read.  Every     *)
(* open, read, write, mkdir and print can raise.                           *)

\* The lines an input file is made of, without their line terminator.
LinePool ==
    {
      <<>>,  \* ""
      <<"#"," ","x",".","c","o","m">>,  \* "# x.com"
      <<"s","u","b",".","x",".","c","o","m">>,  \* "sub.x.com"
      <<" ","X",".","C","O","M","."," ","t","a","i","l">>,  \* " X.COM. tail"
      <<"w","w","w",".","x",".","c","o",".","u","k">>,  \* "www.x.co.uk"
      <<"x",".","#","y",".","z">>,  \* "x.#y.z"
      <<"x">>,  \* "x"
      <<".">>,  \* "."
      <<VT,"X",".","c","o","m",FS,"t","a","i","l">>  \* "\x0bX.com\x1ctail"
    }

\* Lines 65-76: what one line of the input does to apex_domains.
add_line(S, raw) ==
    LET line == strip(raw)
    IN  IF line = <<>> \/ startswith(line, "#") THEN S
        ELSE LET tok == IF split_ws(line) # <<>> THEN split_ws(line)[1] ELSE line
                 a == extract_apex_domain(tok)
             IN  IF a # None /\ a # <<>> THEN S \cup {a} ELSE S

\* Lines 85-87: the handler of process_file prints the path and the
\* exception, then returns 0.
Except(where) ==
    /\ printed' = Append(printed, <<"error", input_file>>)
    /\ count' = 0
    /\ failed' = where
    /\ ppc' = "returned"
    /\ mpc' = mpc

\* Line 86 raises (the path or the message cannot be encoded for the
\* console): the exception leaves the handler, process_file and main.
ExceptRaises(where) ==
    /\ printed' = printed
    /\ count' = count
    /\ failed' = where
    /\ ppc' = "raised"
    /\ mpc' = "crashed"

\* An exception of process_file: the handler runs, and ends one way or the other.
Raise(where) == Except(where) \/ ExceptRaises(where)

Init ==
    /\ domain = <<>>
    /\ apex = None
    /\ again = None
    /\ dotted = None
    /\ rpc = "idle"
    /\ txt_files = 0
    /\ input_file = 0
    /\ total_processed = 0
    /\ printed = <<>>
    /\ summary = <<>>
    /\ mpc = "start"
    /\ ProcessIdle
    /\ disk = NoFile
    /\ before = NoFile

\* Lines 92-98: the paths, and the output directory made if it is not there.
Mkdir ==
    /\ mpc = "start"
    /\ mpc' = "glob"
    /\ UNCHANGED <<rvars, txt_files, input_file, total_processed, printed,
                   summary, pvars>>

\* Line 98 raises (the path is a regular file, the parent is read-only): the
\* exception leaves main.
MkdirFails ==
    /\ mpc = "start"
    /\ mpc' = "crashed"
    /\ UNCHANGED <<rvars, txt_files, input_file, total_processed, printed,
                   summary, pvars>>

\* Line 101: the txt files of platforms, none if the directory is missing.
Discover ==
    /\ mpc = "glob"
    /\ \E n \in 0..MaxFiles : txt_files' = n
    /\ mpc' = "found"
    /\ UNCHANGED <<rvars, input_file, total_processed, printed, summary, pvars>>

\* Lines 103-105: nothing to do.
MainNoFiles ==
    /\ mpc = "found"
    /\ txt_files = 0
    /\ mpc' = "returned"
    /\ UNCHANGED <<rvars, txt_files, input_file, total_processed, printed,
                   summary, pvars>>

\* Lines 107-113: the header is printed, the counter set and the loop entered.
MainBegin ==
    /\ mpc = "found"
    /\ txt_files > 0
    /\ total_processed' = 0
    /\ input_file' = 1
    /\ mpc' = "loop"
    /\ UNCHANGED <<rvars, txt_files, printed, summary, pvars>>

\* Line 104, 107 or 108 raises (the text cannot be encoded for the console).
MainHeaderFails ==
    /\ mpc = "found"
    /\ mpc' = "crashed"
    /\ UNCHANGED <<rvars, txt_files, input_file, total_processed, printed,
                   summary, pvars>>

\* Lines 114-116 and 60: process_file is called for the next file.
MainCall ==
    /\ mpc = "loop"
    /\ input_file <= txt_files
    /\ mpc' = "call"
    /\ ppc' = "open_in"
    /\ apex_domains' = {}
    /\ nread' = 0
    /\ towrite' = <<>>
    /\ buffer' = <<>>
    /\ count' = 0
    /\ failed' = "no"
    /\ \E found \in {NoFile, Stale} :
          /\ disk' = found
          /\ before' = found
    /\ UNCHANGED <<rvars, txt_files, input_file, total_processed, printed,
                   summary>>

\* Faulty variant of OpenInput: the output is opened along with the input.
OpenInput_truncating ==
    /\ ppc = "open_in"
    /\ ppc' = "read"
    /\ disk' = <<>>
    /\ UNCHANGED <<rvars, mvars, nread, apex_domains, towrite, buffer, count,
                   failed, before>>

\* Line 63: the input is opened.
OpenInput ==
    /\ ppc = "open_in"
    /\ ppc' = "read"
    /\ UNCHANGED <<rvars, mvars, nread, apex_domains, towrite, buffer, count,
                   failed, disk, before>>

OpenInputFails ==
    /\ ppc = "open_in"
    /\ Raise("open_in")
    /\ UNCHANGED <<rvars, txt_files, input_file, total_processed, summary,
                   nread, apex_domains, towrite, buffer, disk, before>>

\* Lines 64-76: one more line is read and handled.
ReadLine ==
    /\ ppc = "read"
    /\ nread < MaxLines
    /\ \E raw \in LinePool :
          apex_domains' = add_line(apex_domains, raw \o <<"\n">>)
    /\ nread' = nread + 1
    /\ UNCHANGED <<rvars, mvars, ppc, towrite, buffer, count, failed, disk,
                   before>>

\* Line 64: reading raises (an undecodable byte, a failing device).
ReadFails ==
    /\ ppc = "read"
    /\ Raise("read")
    /\ UNCHANGED <<rvars, txt_files, input_file, total_processed, summary,
                   nread, apex_domains, towrite, buffer, disk, before>>

\* Line 64 ends: the input is exhausted and closed.
EndOfInput ==
    /\ ppc = "read"
    /\ ppc' = "open_out"
    /\ UNCHANGED <<rvars, mvars, nread, apex_domains, towrite, buffer, count,
                   failed, disk, before>>

\* Lines 79-80: the output is created or truncated, the set is sorted.
OpenOutput ==
    /\ ppc = "open_out"
    /\ disk' = <<>>
    /\ towrite' = sorted(apex_domains)
    /\ buffer' = <<>>
    /\ ppc' = "write"
    /\ UNCHANGED <<rvars, mvars, nread, apex_domains, count, failed, before>>

OpenOutputFails ==
    /\ ppc = "open_out"
    /\ Raise("open_out")
    /\ UNCHANGED <<rvars, txt_files, input_file, total_processed, summary,
                   nread, apex_domains, towrite, buffer, disk, before>>

\* Line 81: one member and a newline are handed to the file object, which
\* buffers them.
WriteLine ==
    /\ ppc = "write"
    /\ towrite # <<>>
    /\ buffer' = buffer \o Head(towrite) \o <<"\n">>
    /\ towrite' = Tail(towrite)
    /\ UNCHANGED <<rvars, mvars, ppc, nread, apex_domains, count, failed, disk,
                   before>>

\* Lines 79-81: a flush of the file object, during a write or at the close,
\* raises.  What reached the disk is some prefix of what was handed over, cut
\* anywhere.
WriteFails ==
    /\ ppc = "write"
    /\ \E k \in 0..Len(buffer) :
          disk' = SubSeq(buffer, 1, k)
    /\ Raise("write")
    /\ UNCHANGED <<rvars, txt_files, input_file, total_processed, summary,
                   nread, apex_domains, towrite, buffer, before>>

\* Lines 81-83: the loop is over, the close flushes everything to the disk and
\* the cardinality of the set is returned.
Return ==
    /\ ppc = "write"
    /\ towrite = <<>>
    /\ disk' = buffer
    /\ count' = Cardinality(apex_domains)
    /\ ppc' = "returned"
    /\ UNCHANGED <<rvars, mvars, nread, apex_domains, towrite, buffer, failed,
                   before>>

\* Lines 116-119: the call is back, the file is counted and reported.
MainAfter ==
    /\ mpc = "call"
    /\ ppc = "returned"
    /\ total_processed' = total_processed + 1
    /\ printed' = Append(printed, <<"file", input_file, count>>)
    /\ input_file' = input_file + 1
    /\ mpc' = "loop"
    /\ ppc' = "idle"
    /\ nread' = 0
    /\ apex_domains' = {}
    /\ towrite' = <<>>
    /\ buffer' = <<>>
    /\ count' = 0
    /\ failed' = "no"
    /\ UNCHANGED <<rvars, txt_files, summary, disk, before>>

\* Lines 116-119: the file is counted, and line 119 raises (the check mark or
\* the file name cannot be encoded for the console): the exception leaves main.
MainAfterFails ==
    /\ mpc = "call"
    /\ ppc = "returned"
    /\ total_processed' = total_processed + 1
    /\ mpc' = "crashed"
    /\ UNCHANGED <<rvars, txt_files, input_file, printed, summary, pvars>>

\* Lines 121-122: the summary.
MainFinish ==
    /\ mpc = "loop"
    /\ input_file > txt_files
    /\ summary' = <<total_processed>>
    /\ mpc' = "done"
    /\ UNCHANGED <<rvars, txt_files, input_file, total_processed, printed, pvars>>

\* Line 121 raises before the summary is out, or line 122 after it.
MainFinishFails ==
    /\ mpc = "loop"
    /\ input_file > txt_files
    /\ \/ summary' = summary
       \/ summary' = <<total_processed>>
    /\ mpc' = "crashed"
    /\ UNCHANGED <<rvars, txt_files, input_file, total_processed, printed, pvars>>

Next ==
    \/ Mkdir
    \/ MkdirFails
    \/ Discover
    \/ MainNoFiles
    \/ MainBegin
    \/ MainHeaderFails
    \/ MainCall
    \/ OpenInput
    \/ OpenInputFails
    \/ ReadLine
    \/ ReadFails
    \/ EndOfInput
    \/ OpenOutput
    \/ OpenOutputFails
    \/ WriteLine
    \/ WriteFails
    \/ Return
    \/ MainAfter
    \/ MainAfterFails
    \/ MainFinish
    \/ MainFinishFails

Spec == Init /\ [][Next]_vars

-----------------------------------------------------------------------------
(* Vocabulary of the properties. *)

Labels(d) == split(d, ".")

\* The last two labels of d, joined, are a known two-part suffix.
HasKnownSuffix(d) == join(".", last(Labels(d), 2)) \in two_level_tlds

\* d after strip() and lower(), before any "." is removed.
Cleaned(d) == lower(strip(d))

\* d after strip(), lower() and the removal of one trailing ".".
Normal(d) ==
    LET c == Cleaned(d)
    IN  IF endswith(c, ".") THEN SubSeq(c, 1, Len(c) - 1) ELSE c

Resolved == rpc \in {"resolved", "again", "done"}

\* The lines a reader finds in a file: the pieces that end with "\n", and
\* what follows the last "\n" if anything does.
file_lines(content) ==
    LET pieces == split(content, "\n")
    IN  IF pieces[Len(pieces)] = <<>>
        THEN SubSeq(pieces, 1, Len(pieces) - 1)
        ELSE pieces

Written == ppc = "returned" /\ failed = "no"

IsFileReport(e) == e[1] = "file"
FileReports == SelectSeq(printed, IsFileReport)
ErrorReported(i) == \E k \in 1..Len(printed) : printed[k] = <<"error", i>>

-----------------------------------------------------------------------------
(* Properties of extract_apex_domain, under SpecResolver. *)

\* C1: every result that is not None is lowercase and does not end with ".".
\* Fails: after one trailing "." is removed another may remain ("x.." gives
\* "x.").
C1_LowercaseNoTrailingDot ==
    (Resolved /\ apex # None) => (apex = lower(apex) /\ ~endswith(apex, "."))

\* C2: a result that is not None resolves to itself.  Fails: "x.." gives "x."
\* and "x." gives "x".
C2_Idempotent ==
    (rpc \in {"again", "done"} /\ apex # None) => (again # None /\ again = apex)

\* C3 as stated: if d has three or more labels and its last two labels are a
\* known two-part suffix, the result is the last three labels of d joined.
\* Fails: the result is lowercased and stripped ("X.co.uk" gives "x.co.uk").
C3_Original ==
    (Resolved /\ Len(Labels(domain)) >= 3 /\ HasKnownSuffix(domain))
        => apex = join(".", last(Labels(domain), 3))

\* C3 amended: under the same condition the result is the last three labels
\* of d once d is stripped of surrounding whitespace and lowercased.
C3_LastThreeOfCleaned ==
    (Resolved /\ Len(Labels(domain)) >= 3 /\ HasKnownSuffix(domain))
        => apex = join(".", last(Labels(Cleaned(domain)), 3))

C3_Witness ==
    /\ Resolved
    /\ Len(Labels(domain)) >= 4
    /\ HasKnownSuffix(domain)
    /\ domain # Cleaned(domain)
    /\ apex = <<"x",".","c","o",".","u","k">>

\* C4 as stated: if d has at least two labels and its last two labels are not
\* a known two-part suffix, the result is the last two labels of d joined.
\* Fails: "X.x" gives "x.x", and "x.x." gives "x.x", not "x.".
C4_Original ==
    (Resolved /\ Len(Labels(domain)) >= 2 /\ ~HasKnownSuffix(domain))
        => apex = join(".", last(Labels(domain), 2))

\* C4 amended: let n be d stripped of surrounding whitespace, lowercased and
\* with one trailing "." removed.  If n has at least two labels and its last
\* two labels are not a known two-part suffix, the result is the last two
\* labels of n joined, however many labels precede them.
C4_LastTwoOfNormal ==
    LET n == Normal(domain)
    IN  (Resolved /\ Len(Labels(n)) >= 2 /\ ~HasKnownSuffix(n))
            => apex = join(".", last(Labels(n), 2))

C4_Witness ==
    /\ Resolved
    /\ Len(Labels(Normal(domain))) >= 4
    /\ ~HasKnownSuffix(Normal(domain))
    /\ domain # Normal(domain)
    /\ apex = <<"c","o",".","x">>

\* C5 as stated: a d of exactly one label (not empty, no ".") is returned
\* unchanged.  Fails: "X" gives "x", " x" gives "x", " " gives None.
C5_Original ==
    (Resolved /\ domain # <<>> /\ Len(Labels(domain)) = 1) => apex = domain

\* C5 amended: a d of exactly one label is returned stripped of surrounding
\* whitespace and lowercased, and None is returned if nothing is left of it.
C5_SingleLabelCleaned ==
    (Resolved /\ domain # <<>> /\ Len(Labels(domain)) = 1)
        => apex = (IF strip(domain) = <<>> THEN None ELSE Cleaned(domain))

C5_Witness ==
    /\ Resolved
    /\ Len(Labels(domain)) = 1
    /\ domain = <<" ","X","u","k">>
    /\ apex = <<"x","u","k">>

\* C6: for a d without surrounding whitespace that does not end with ".",
\* d + "." and d have the same result (None for both when d is empty).
C6_TrailingDotInsensitive ==
    (rpc = "done" /\ strip(domain) = domain /\ ~endswith(domain, "."))
        => (dotted = apex /\ (domain = <<>> => apex = None))

C6_Witness ==
    /\ rpc = "done"
    /\ domain = <<"X",".","x",".","c","o",".","u","k">>
    /\ dotted = <<"x",".","c","o",".","u","k">>
    /\ dotted = apex

-----------------------------------------------------------------------------
(* Properties of process_file and main, under Spec. *)

\* C7: when process_file returns without a failure, the lines of the output
\* file are in strictly ascending order, there are as many of them as
\* apex_domains has members, and that number is the value returned.
C7_SortedUniqueCounted ==
    Written =>
        LET L == file_lines(disk)
        IN  /\ \A i \in 1..(Len(L) - 1) : str_lt(L[i], L[i + 1])
            /\ Len(L) = Cardinality(apex_domains)
            /\ count = Len(L)

C7_Witness ==
    /\ Written
    /\ nread = 3
    /\ count = 2
    /\ before = Stale
    /\ file_lines(disk)
         = << <<"#","y",".","z">>, <<"x",".","c","o","m">> >>

\* C8: no line of an output file that process_file wrote is blank or starts
\* with "#".  Fails: the line "x.#y.z" has the apex "#y.z".
C8_NoBlankNoComment ==
    Written =>
        \A i \in 1..Len(file_lines(disk)) :
            LET l == file_lines(disk)[i]
            IN  strip(l) # <<>> /\ ~startswith(l, "#")

\* C9: once main is in its loop, a failure in process_file is caught there
\* and gives the count 0, main does not stop before its end, and at the end
\* every file 1..n has been reported in order, a file that failed with 0, and
\* the summary is n.  Fails: the handler prints (line 86), and so does main
\* after each call (line 119); a print that cannot encode its text raises, and
\* that exception leaves main.
C9_FailuresIsolated ==
    /\ (ppc \in {"returned", "raised"} /\ failed # "no")
          => (ppc = "returned" /\ count = 0)
    /\ input_file >= 1 => mpc # "crashed"
    /\ mpc = "done" =>
          /\ summary = <<txt_files>>
          /\ Len(FileReports) = txt_files
          /\ \A i \in 1..txt_files :
                /\ FileReports[i][2] = i
                /\ ErrorReported(i) => FileReports[i][3] = 0

\* C10: the output directory is as process_file found it as long as the
\* input is being opened or read, and stays so if either fails.
C10_OutputUntouchedUntilRead ==
    (\/ ppc \in {"open_in", "read", "open_out"}
     \/ (ppc \in {"returned", "raised"} /\ failed \in {"open_in", "read"}))
        => disk = before

C10_Witness ==
    /\ ppc = "returned"
    /\ failed = "read"
    /\ nread = 2
    /\ apex_domains # {}
    /\ disk = Stale

====
